---------------------------- MODULE Spec2Model ----------------------------
(***************************************************************************)
(* Smart Panchayat backend (src/server.js): the phone/OTP login handlers,  *)
(* the in-memory OTP store, the villagers table they read, and the bearer  *)
(* token decoder.                                                          *)
(*                                                                         *)
(* JavaScript strings are modelled as sequences of one-character strings,  *)
(* so that length checks, concatenation, split and parseInt are computed   *)
(* and not assumed.  Every async handler is cut at its await: the          *)
(* synchronous section up to the await is one action, and the resolution   *)
(* of the awaited query together with the continuation after it is one     *)
(* action (the rows are those of the table at that moment, or the query    *)
(* rejects).  Handlers of different requests interleave only at those cuts *)
(* (single-threaded event loop).                                           *)
(***************************************************************************)
EXTENDS Integers, Sequences, FiniteSets, Bags, TLC

(* ------------------------------ bounds -------------------------------- *)

\* number of requests that can be in flight at the same time
MaxInFlight == 2

\* number of send-otp / resend-otp requests accepted over a run
MaxIssues == 2

\* largest AUTO_INCREMENT id handed out by the villagers table
MaxVillagerId == 3

\* how far the clock runs past a multiple of the OTP lifetime, in milliseconds
MaxSlack == 1

\* the longest session the clock outlasts, in hours
MaxSessionHours == 24

\* number of tokens /api/login hands out over a run
MaxSessions == 2

\* largest AUTO_INCREMENT id handed out by the sensors table
MaxSensorId == 2

(* ----------------------------- constants ------------------------------ *)

\* 5 * 60 * 1000 at server.js:1272 and :1441
OTP_TTL == 5 * 60 * 1000

\* otpData.attempts >= 3 at server.js:1335
MAX_ATTEMPTS == 3

\* aadhaarNumber.length !== 12 at server.js:1114
AADHAAR_LENGTH == 12

\* aadhaarNumber === '999999999999' at server.js:1121
ADMIN_AADHAAR == "999999999999"

\* SENSOR_ACTIVE_THRESHOLD, seconds, server.js:112
SENSOR_ACTIVE_THRESHOLD == 20

\* the literal 22 of the status labels, seconds, server.js:460, :547, :609,
\* :712 and :1077
LABEL_THRESHOLD == 22

\* phone.length !== 10 at server.js:1248
PHONE_LENGTH == 10

\* Math.floor(100000 + Math.random() * 900000) at server.js:1271 and :1440
OTP_BASE == 100000

OTP_SPAN == 900000

(* ------------------------------ strings ------------------------------- *)

Digits == <<"0", "1", "2", "3", "4", "5", "6", "7", "8", "9">>

IsDigit(c) == \E i \in 1..10 : Digits[i] = c

DigitValue(c) == (CHOOSE i \in 1..10 : Digits[i] = c) - 1

\* Number.prototype.toString() of a non-negative integer
RECURSIVE toString(_)
toString(n) ==
    IF n < 10 THEN <<Digits[n + 1]>>
    ELSE toString(n \div 10) \o <<Digits[(n % 10) + 1]>>

\* String.prototype.startsWith
StartsWith(s, prefix) ==
    /\ Len(s) >= Len(prefix)
    /\ SubSeq(s, 1, Len(prefix)) = prefix

\* String.prototype.split with a one-character separator
RECURSIVE Split(_, _)
Split(s, sep) ==
    IF \A i \in 1..Len(s) : s[i] # sep THEN <<s>>
    ELSE LET k == CHOOSE i \in 1..Len(s) :
                      /\ s[i] = sep
                      /\ \A j \in 1..(i - 1) : s[j] # sep
         IN  <<SubSeq(s, 1, k - 1)>> \o Split(SubSeq(s, k + 1, Len(s)), sep)

\* the value of a string of digits
RECURSIVE DigitsValue(_)
DigitsValue(s) ==
    IF s = <<>> THEN 0
    ELSE 10 * DigitsValue(SubSeq(s, 1, Len(s) - 1)) + DigitValue(s[Len(s)])

NaN == -1

\* parseInt on a string without sign or white space: the value of the
\* longest prefix of digits, NaN when that prefix is empty
parseInt(s) ==
    LET n == IF \A i \in 1..Len(s) : IsDigit(s[i]) THEN Len(s)
             ELSE (CHOOSE i \in 1..Len(s) :
                       /\ ~IsDigit(s[i])
                       /\ \A j \in 1..(i - 1) : IsDigit(s[j])) - 1
    IN  IF n = 0 THEN NaN ELSE DigitsValue(SubSeq(s, 1, n))

Dash == "-"

BearerPrefix == <<"B", "e", "a", "r", "e", "r", " ">>

AdminPrefix == <<"t", "o", "k", "e", "n", "-">>

VillagerPrefix == <<"v", "i", "l", "l", "a", "g", "e", "r", "-">>

(* --------------------------- request inputs --------------------------- *)

\* the missing / empty value of a request field (falsy in JavaScript)
Missing == <<>>

Phone1 == <<"9", "8", "7", "6", "5", "4", "3", "2", "1", "0">>

Phone2 == <<"9", "8", "7", "6", "5", "4", "3", "2", "1", "1">>

\* a phone of the wrong length
ShortPhone == <<"9", "8", "7">>

\* a phone of the checked length that holds a dash
DashPhone == <<"9", "8", "7", "6", "5", "-", "4", "3", "2", "1">>

\* the phones that can be stored in the villagers table
DbPhones == {Phone1, Phone2}

\* the keys of the OTP store that requests name
Phones == DbPhones

Aadhaars == {"111111111111", "222222222222"}

\* floor(Math.random() * 900000): the smallest and the largest draw
RandomDraws == {0, OTP_SPAN - 1}

\* the codes a client submits: every code that can be issued
SubmittedCodes == {toString(OTP_BASE + k) : k \in RandomDraws}

\* Authorization headers of the villager CRUD requests: absent, and an
\* admin token
AuthHeaders ==
    { Missing,
      BearerPrefix \o AdminPrefix \o <<"1">> }

\* Authorization headers that no login and no OTP verification returns: the
\* admin and the villager pattern with letters for the timestamp, raw and
\* with the Bearer prefix, a villager pattern of three parts, and a string
\* of neither pattern
ForgedHeaders ==
    { AdminPrefix \o <<"x">>,
      BearerPrefix \o AdminPrefix \o <<"x">>,
      VillagerPrefix \o <<"x", "-", "y", "-", "2">>,
      BearerPrefix \o VillagerPrefix \o <<"x", "-", "y", "-", "2">>,
      VillagerPrefix \o <<"x", "-", "y">>,
      <<"x">> }

\* a villager token for villager id, in the form /api/login gives it
VillagerHeader(id) ==
    BearerPrefix \o VillagerPrefix \o <<"0", Dash>> \o Phone1 \o <<Dash>> \o toString(id)

\* Authorization headers of the sensor requests: absent, an admin token, and
\* villager tokens for the ids 0, 1 and 2
SensorHeaders ==
    AuthHeaders \cup {VillagerHeader(id) : id \in 0..2}

\* req.params.devEUI and req.body.devEUI
DevEUIs == {"A1", "B2"}

\* req.body.deviceName
DeviceNames == {"pump", "tank"}

\* age in milliseconds of the latest sample of a device: around the two
\* thresholds
SampleAges == {20000, 21000, 22000, 22001}

\* what the telemetry store answers for one device: the query rejects, no
\* row, or the latest row with its _time
NoSample == [kind |-> "none", time |-> 0]

FailedSample == [kind |-> "failed", time |-> 0]

Sample(time) == [kind |-> "row", time |-> time]

\* a phone no villager has
UnknownPhone == <<"9", "8", "7", "6", "5", "4", "3", "2", "0", "0">>

\* req.body.phone of the sensor requests
SensorPhones == DbPhones \cup {UnknownPhone, Missing}

\* the suspension point at which a collaborator call of a sensor request
\* rejects, if any: db.getConnection, conn.beginTransaction, the first
\* conn.query, conn.commit
Failures == {"none", "getConnection", "beginTransaction", "query", "commit"}

\* the Aadhaar numbers of /api/login: those of the table, the admin's, and
\* one of the wrong length
LoginAadhaars == Aadhaars \cup {ADMIN_AADHAAR, "123", ""}

(* ------------------------- authentication ----------------------------- *)

\* a decoder that takes for an admin token only 'token-' and a number, the
\* shape /api/login gives it
getUserFromToken_Shaped(authHeader) ==
    IF authHeader = Missing THEN [role |-> "guest", id |-> NaN, phone |-> Missing]
    ELSE
      LET token == IF StartsWith(authHeader, BearerPrefix)
                   THEN SubSeq(authHeader, 8, Len(authHeader))
                   ELSE authHeader
          parts == Split(token, Dash)
      IN  IF /\ StartsWith(token, AdminPrefix)
             /\ Len(parts) = 2
             /\ Len(parts[2]) > 0
             /\ \A i \in 1..Len(parts[2]) : IsDigit(parts[2][i])
          THEN [role |-> "admin", id |-> NaN, phone |-> Missing]
          ELSE IF /\ StartsWith(token, VillagerPrefix)
                  /\ Len(parts) >= 4
                  /\ parseInt(parts[4]) # NaN
          THEN [role |-> "villager", id |-> parseInt(parts[4]), phone |-> parts[3]]
          ELSE [role |-> "guest", id |-> NaN, phone |-> Missing]

\* getUserFromToken, server.js:152-185
getUserFromToken(authHeader) ==
    IF authHeader = Missing THEN [role |-> "guest", id |-> NaN, phone |-> Missing]
    ELSE
      LET token == IF StartsWith(authHeader, BearerPrefix)
                   THEN SubSeq(authHeader, 8, Len(authHeader))
                   ELSE authHeader
          parts == Split(token, Dash)
      IN  IF StartsWith(token, AdminPrefix)
          THEN [role |-> "admin", id |-> NaN, phone |-> Missing]
          ELSE IF /\ StartsWith(token, VillagerPrefix)
                  /\ Len(parts) >= 4
                  /\ parseInt(parts[4]) # NaN
          THEN [role |-> "villager", id |-> parseInt(parts[4]), phone |-> parts[3]]
          ELSE [role |-> "guest", id |-> NaN, phone |-> Missing]

\* getUserFromToken for the headers of the villager and sensor requests,
\* decoded once
Users == [h \in SensorHeaders |-> getUserFromToken(h)]

\* const user = getUserFromToken(req.headers['authorization']), the first
\* statement of the handlers
UserOf(authHeader) ==
    IF authHeader \in DOMAIN Users THEN Users[authHeader]
    ELSE getUserFromToken(authHeader)

(* ------------------------------- state -------------------------------- *)

VARIABLES
    now,        \* Date.now(), milliseconds since the server started
    villagers,  \* the rows of the villagers table
    nextId,     \* the AUTO_INCREMENT counter of villagers.id
    otpStore,   \* the Map otpStore: phone -> OTP record, NoRec when absent
    reqs,       \* the bag of requests in flight, each the locals of its handler
    nextSeq,    \* history: the number the next send/resend request gets
    used,       \* history: the records a check-otp has succeeded against
    issued,     \* history: the tokens returned by /api/login
    sensors,    \* the rows of the sensors table
    villager_sensors,   \* the rows of the villager_sensors table
    nextSensorId,       \* the AUTO_INCREMENT counter of sensors.id
    pool,       \* the connection of the pool db: "idle", or "open" when it
                \* was released with a transaction begun and not ended
    ev          \* the response sent by the step just taken, NoEvent if none

vars == <<now, villagers, nextId, otpStore, reqs, nextSeq, used, issued,
          sensors, villager_sensors, nextSensorId, pool, ev>>

\* the tables of the sensor registry
sensorTables == <<sensors, villager_sensors, nextSensorId>>

\* an OTP record has the fields of the stored object and three history
\* fields: rid, the request that stored it (requests are numbered as they are
\* received), op, the endpoint of that request, and compares, the number of
\* comparisons made against its code
NoRec == [otp |-> Missing, expiresAt |-> 0, villagerId |-> 0,
          aadhaarNumber |-> "", attempts |-> 0, rid |-> 0, op |-> "none",
          compares |-> 0]

\* the locals of a suspended handler: its endpoint, phone, for send-otp and
\* resend-otp the number of the request, and for check-otp the record otpData
\* it matched (its number and its villagerId)
Suspended(kind, phone, seq, otpData) ==
    [kind |-> kind, phone |-> phone, seq |-> seq, rid |-> otpData.rid,
     villagerId |-> otpData.villagerId]

\* a handler reaches its await
Suspend(q) == reqs (+) SetToBag({q})

\* the awaited query resolves and the handler runs to its end
Finish(q) == reqs (-) SetToBag({q})

\* the requests in flight
InFlight == BagToSet(reqs)

\* a response: the endpoint, the HTTP status, the outcome, the record it is
\* about, and for a successful check-otp the villagerId of that record, the
\* user.id and the token returned
NoEvent == [op |-> "none", status |-> 0, res |-> "none", rid |-> 0,
            villagerId |-> 0, id |-> 0, token |-> Missing,
            role |-> "none", phone |-> Missing, sensors |-> {}, count |-> 0]

\* a lookup that returns a villager whatever the phone
SelectByPhone_Any(phone) ==
    IF villagers # {}
    THEN <<CHOOSE v \in villagers : \A w \in villagers : v.id <= w.id>>
    ELSE <<>>

\* SELECT ... FROM villagers WHERE phone = ?  (phone is a unique key)
SelectByPhone(phone) ==
    IF \E v \in villagers : v.phone = phone
    THEN <<CHOOSE v \in villagers : v.phone = phone>>
    ELSE <<>>

\* the server has started at time t: an empty store, no request in flight,
\* and the two villagers the table holds
StartedAt(t) ==
    /\ now = t
    /\ villagers = {[id |-> 1, aadhaar |-> "111111111111", phone |-> Phone1],
                    [id |-> 2, aadhaar |-> "222222222222", phone |-> Phone2]}
    /\ nextId = 3
    /\ otpStore = [p \in Phones |-> NoRec]
    /\ reqs = EmptyBag
    /\ nextSeq = 1
    /\ used = {}
    /\ issued = {}
    /\ sensors = {}
    /\ villager_sensors = {}
    /\ nextSensorId = 1
    /\ pool = "idle"
    /\ ev = NoEvent

Init == StartedAt(0)

(* ------------------------------ helpers ------------------------------- *)

\* the response a handler sends
Response(op, status, res) ==
    [NoEvent EXCEPT !.op = op, !.status = status, !.res = res]

\* the server takes a new request
CanAccept == BagCardinality(reqs) < MaxInFlight

\* the object literal stored by send-otp (server.js:1275-1282) and by
\* resend-otp (server.js:1443-1450)
OtpRecord(otp, villager, seq, op) ==
    [otp |-> otp, expiresAt |-> now + OTP_TTL, villagerId |-> villager.id,
     aadhaarNumber |-> villager.aadhaar, attempts |-> 0,
     rid |-> seq, op |-> op, compares |-> 0]

\* a code without the offset of 100000
GenerateOtp_NoBase(draw) == toString(draw)

\* Math.floor(100000 + Math.random() * 900000).toString(), the draw being
\* floor(Math.random() * 900000)
GenerateOtp(draw) == toString(OTP_BASE + draw)

\* 'villager-' + Date.now() + '-' + phone + '-' + villager.id
VillagerToken(phone, id) ==
    VillagerPrefix \o toString(now) \o <<Dash>> \o phone \o <<Dash>> \o toString(id)

\* a store that drops a record once its attempts are used up
StoreSet_DropAtCap(phone, rec) ==
    [otpStore EXCEPT ![phone] = IF rec.attempts >= MAX_ATTEMPTS THEN NoRec ELSE rec]

\* a store that keeps the record a phone already has
StoreSet_KeepPending(phone, rec) ==
    [otpStore EXCEPT ![phone] = IF rec.attempts = 0 /\ otpStore[phone] # NoRec
                                THEN otpStore[phone] ELSE rec]

\* otpStore.set(phone, otpData), server.js:1275, :1346 and :1443
StoreSet(phone, rec) == [otpStore EXCEPT ![phone] = rec]

\* otpStore.delete(phone), server.js:1327, :1336, :1375, :1422
StoreDelete(phone) == [otpStore EXCEPT ![phone] = NoRec]

(* ------------------------------ the clock ----------------------------- *)

\* time passes between handler steps: one millisecond, or one OTP lifetime;
\* the clock stays within MaxSlack milliseconds of a multiple of the lifetime
Tick ==
    /\ \E d \in {1, OTP_TTL} :
          /\ now + d <= OTP_TTL + MaxSlack
          /\ (now + d) % OTP_TTL <= MaxSlack
          /\ now' = now + d
    /\ ev' = NoEvent
    /\ UNCHANGED <<villagers, nextId, otpStore, reqs, nextSeq, used, issued, sensorTables, pool>>

(* ------------------------------ send-otp ------------------------------ *)

\* POST /api/verify/send-otp up to its await, server.js:1243-1259
SendOtpStart(phone) ==
    /\ CanAccept
    /\ IF phone = Missing \/ Len(phone) # PHONE_LENGTH
       THEN /\ ev' = Response("send-otp", 400, "BadRequest")
            /\ UNCHANGED <<reqs, nextSeq>>
       ELSE /\ nextSeq <= MaxIssues
            /\ reqs' = Suspend(Suspended("send-otp", phone, nextSeq, NoRec))
            /\ nextSeq' = nextSeq + 1
            /\ ev' = NoEvent
    /\ UNCHANGED <<now, villagers, nextId, otpStore, used, issued, sensorTables, pool>>

\* POST /api/verify/send-otp from the resolution of its query,
\* server.js:1256-1298
SendOtpResume(q, ok) ==
    /\ q \in InFlight
    /\ q.kind = "send-otp"
    /\ LET phone == q.phone
           seq == q.seq
           rows == SelectByPhone(phone)
       IN  IF ~ok
           THEN /\ ev' = Response("send-otp", 500, "UpstreamError")
                /\ UNCHANGED otpStore
           ELSE IF Len(rows) = 0
           THEN /\ ev' = Response("send-otp", 404, "NotRegistered")
                /\ UNCHANGED otpStore
           ELSE \E draw \in RandomDraws :
                  /\ otpStore' = StoreSet(phone, OtpRecord(GenerateOtp(draw), rows[1], seq, "send-otp"))
                  /\ ev' = [Response("send-otp", 200, "Sent") EXCEPT !.rid = seq]
    /\ reqs' = Finish(q)
    /\ UNCHANGED <<now, villagers, nextId, nextSeq, used, issued, sensorTables, pool>>

(* ----------------------------- resend-otp ----------------------------- *)

\* POST /api/verify/resend-otp up to its await, server.js:1409-1428
ResendOtpStart(phone) ==
    /\ CanAccept
    /\ IF phone = Missing
       THEN /\ ev' = Response("resend-otp", 400, "BadRequest")
            /\ UNCHANGED <<reqs, nextSeq, otpStore>>
       ELSE /\ nextSeq <= MaxIssues
            /\ otpStore' = StoreDelete(phone)
            /\ reqs' = Suspend(Suspended("resend-otp", phone, nextSeq, NoRec))
            /\ nextSeq' = nextSeq + 1
            /\ ev' = NoEvent
    /\ UNCHANGED <<now, villagers, nextId, used, issued, sensorTables, pool>>

\* POST /api/verify/resend-otp from the resolution of its query,
\* server.js:1425-1466
ResendOtpResume(q, ok) ==
    /\ q \in InFlight
    /\ q.kind = "resend-otp"
    /\ LET phone == q.phone
           seq == q.seq
           rows == SelectByPhone(phone)
       IN  IF ~ok
           THEN /\ ev' = Response("resend-otp", 500, "UpstreamError")
                /\ UNCHANGED otpStore
           ELSE IF Len(rows) = 0
           THEN /\ ev' = Response("resend-otp", 404, "NotRegistered")
                /\ UNCHANGED otpStore
           ELSE \E draw \in RandomDraws :
                  /\ otpStore' = StoreSet(phone, OtpRecord(GenerateOtp(draw), rows[1], seq, "resend-otp"))
                  /\ ev' = [Response("resend-otp", 200, "Sent") EXCEPT !.rid = seq]
    /\ reqs' = Finish(q)
    /\ UNCHANGED <<now, villagers, nextId, nextSeq, used, issued, sensorTables, pool>>

(* ------------------------------ check-otp ----------------------------- *)

\* a handler that never takes the branch of the missing record
RecordMissing_Never(otpData) == FALSE

\* if (!otpData), server.js:1318
RecordMissing(otpData) == otpData = NoRec

\* an expiry check that rejects at the instant of expiry
IsExpired_Inclusive(otpData) == now >= otpData.expiresAt

\* Date.now() > otpData.expiresAt, server.js:1326
IsExpired(otpData) == now > otpData.expiresAt

\* an attempts check that is off by one
TooManyAttempts_Strict(otpData) == otpData.attempts > MAX_ATTEMPTS

\* otpData.attempts >= 3, server.js:1335
TooManyAttempts(otpData) == otpData.attempts >= MAX_ATTEMPTS

\* a comparison that does not count the attempt
CountAttempt_Uncounted(otpData) == [otpData EXCEPT !.compares = @ + 1]

\* a handler that writes back the count read by a check-otp still in flight
CountAttempt_Stale(otpData) ==
    [otpData EXCEPT
        !.attempts = IF \E q \in InFlight : q.kind = "check-otp" /\ q.rid = otpData.rid
                     THEN @ ELSE @ + 1,
        !.compares = @ + 1]

\* otpData.attempts++, server.js:1344: otpData is the object held by the
\* Map, so the increment is visible in the store on both branches that
\* follow; compares counts the comparison of server.js:1345
CountAttempt(otpData) ==
    [otpData EXCEPT !.attempts = @ + 1, !.compares = @ + 1]

\* POST /api/verify/check-otp up to its await, server.js:1303-1358
CheckOtpStart(phone, otp) ==
    /\ CanAccept
    /\ LET otpData == otpStore[phone]
           R(res) == [Response("check-otp", 200, res) EXCEPT !.rid = otpData.rid]
       IN  IF phone = Missing \/ otp = Missing
           THEN /\ ev' = Response("check-otp", 400, "BadRequest")
                /\ UNCHANGED <<otpStore, reqs>>
           ELSE IF RecordMissing(otpData)
           THEN /\ ev' = R("NotFound")
                /\ UNCHANGED <<otpStore, reqs>>
           ELSE IF IsExpired(otpData)
           THEN /\ otpStore' = StoreDelete(phone)
                /\ ev' = R("Expired")
                /\ UNCHANGED reqs
           ELSE IF TooManyAttempts(otpData)
           THEN /\ otpStore' = StoreDelete(phone)
                /\ ev' = R("TooManyAttempts")
                /\ UNCHANGED reqs
           ELSE IF otpData.otp # otp
           THEN /\ otpStore' = StoreSet(phone, CountAttempt(otpData))
                /\ ev' = R("Mismatch")
                /\ UNCHANGED reqs
           ELSE /\ otpStore' = StoreSet(phone, CountAttempt(otpData))
                /\ reqs' = Suspend(Suspended("check-otp", phone, 0, otpData))
                /\ ev' = NoEvent
    /\ UNCHANGED <<now, villagers, nextId, nextSeq, used, issued, sensorTables, pool>>

\* POST /api/verify/check-otp from the resolution of its query,
\* server.js:1354-1404
CheckOtpResume(q, ok) ==
    /\ q \in InFlight
    /\ q.kind = "check-otp"
    /\ LET phone == q.phone
           rid == q.rid
           rows == SelectByPhone(phone)
           R(status, res) == [Response("check-otp", status, res) EXCEPT !.rid = rid]
       IN  IF ~ok
           THEN /\ ev' = R(500, "UpstreamError")
                /\ UNCHANGED <<otpStore, used>>
           ELSE IF Len(rows) = 0
           THEN /\ ev' = R(200, "VillagerNotFound")
                /\ UNCHANGED <<otpStore, used>>
           ELSE /\ otpStore' = StoreDelete(phone)
                /\ used' = used \cup {rid}
                /\ ev' = [R(200, "Ok") EXCEPT
                             !.villagerId = q.villagerId,
                             !.id = rows[1].id,
                             !.token = VillagerToken(phone, rows[1].id)]
    /\ reqs' = Finish(q)
    /\ UNCHANGED <<now, villagers, nextId, nextSeq, issued, sensorTables, pool>>

(* --------------------------- villager CRUD ---------------------------- *)

\* a guard that lets villagers pass
Denied_GuestsOnly(user) == user.role = "guest"

\* if (user.role !== 'admin'), server.js:231, :271, :310, :345, :378, :407,
\* :815, :894, :959, :1028
Denied(user) == user.role # "admin"

\* POST /api/villagers, server.js:305-336.  The INSERT fails with
\* ER_DUP_ENTRY when the aadhaar or the phone is already in the table.
PostVillager(auth, aadhaar, phone) ==
    /\ LET user == UserOf(auth)
           R(status, res) == Response("post-villager", status, res)
       IN  IF Denied(user)
           THEN /\ ev' = R(403, "Forbidden")
                /\ UNCHANGED <<villagers, nextId>>
           ELSE IF phone = Missing
           THEN /\ ev' = R(400, "BadRequest")
                /\ UNCHANGED <<villagers, nextId>>
           ELSE IF \E v \in villagers : v.aadhaar = aadhaar \/ v.phone = phone
           THEN /\ ev' = R(409, "Conflict")
                /\ UNCHANGED <<villagers, nextId>>
           ELSE /\ nextId <= MaxVillagerId
                /\ villagers' = villagers \cup
                       {[id |-> nextId, aadhaar |-> aadhaar, phone |-> phone]}
                /\ nextId' = nextId + 1
                /\ ev' = R(200, "Ok")
    /\ UNCHANGED <<now, otpStore, reqs, nextSeq, used, issued, sensorTables, pool>>

\* PUT /api/villagers/:aadhaarNumber, server.js:339-369
PutVillager(auth, aadhaar, phone) ==
    /\ LET user == UserOf(auth)
           R(status, res) == Response("put-villager", status, res)
       IN  IF Denied(user)
           THEN /\ ev' = R(403, "Forbidden")
                /\ UNCHANGED villagers
           ELSE IF \A v \in villagers : v.aadhaar # aadhaar
           THEN /\ ev' = R(404, "NotFound")
                /\ UNCHANGED villagers
           ELSE IF \E v \in villagers : v.aadhaar # aadhaar /\ v.phone = phone
           THEN /\ ev' = R(500, "UpstreamError")
                /\ UNCHANGED villagers
           ELSE /\ villagers' = {IF v.aadhaar = aadhaar
                                 THEN [v EXCEPT !.phone = phone] ELSE v :
                                 v \in villagers}
                /\ ev' = R(200, "Ok")
    /\ UNCHANGED <<now, nextId, otpStore, reqs, nextSeq, used, issued, sensorTables, pool>>

\* DELETE /api/villagers/:aadhaarNumber, server.js:372-398
DeleteVillager(auth, aadhaar) ==
    /\ LET user == UserOf(auth)
           R(status, res) == Response("delete-villager", status, res)
       IN  IF Denied(user)
           THEN /\ ev' = R(403, "Forbidden")
                /\ UNCHANGED villagers
           ELSE IF \A v \in villagers : v.aadhaar # aadhaar
           THEN /\ ev' = R(404, "NotFound")
                /\ UNCHANGED villagers
           ELSE /\ villagers' = {v \in villagers : v.aadhaar # aadhaar}
                /\ ev' = R(200, "Ok")
    /\ UNCHANGED <<now, nextId, otpStore, reqs, nextSeq, used, issued, sensorTables, pool>>

(* ------------------------------ sessions ------------------------------ *)

\* 'token-' + Date.now(), server.js:1124
AdminToken == AdminPrefix \o toString(now)

\* SELECT ... FROM villagers WHERE aadhaar = ?  (aadhaar is a unique key)
SelectByAadhaar(aadhaar) ==
    IF \E v \in villagers : v.aadhaar = aadhaar
    THEN <<CHOOSE v \in villagers : v.aadhaar = aadhaar>>
    ELSE <<>>

\* POST /api/login, server.js:1111-1185.  Nothing is read or written before
\* the await of the villager branch, so the handler is one step, taken when
\* its query resolves (ok) or rejects
Login(aadhaarNumber, ok) ==
    /\ LET rows == SelectByAadhaar(aadhaarNumber)
           R(status, res) == Response("login", status, res)
       IN  IF aadhaarNumber = "" \/ Len(aadhaarNumber) # AADHAAR_LENGTH
           THEN /\ ev' = R(400, "BadRequest")
                /\ UNCHANGED issued
           ELSE IF aadhaarNumber = ADMIN_AADHAAR
           THEN /\ Cardinality(issued \cup {AdminToken}) <= MaxSessions
                /\ issued' = issued \cup {AdminToken}
                /\ ev' = [R(200, "Ok") EXCEPT !.token = AdminToken,
                                              !.role = "admin"]
           ELSE IF ~ok
           THEN /\ ev' = R(500, "UpstreamError")
                /\ UNCHANGED issued
           ELSE IF Len(rows) = 0
           THEN /\ ev' = R(404, "NotFound")
                /\ UNCHANGED issued
           ELSE LET villager == rows[1]
                    token == VillagerToken(villager.phone, villager.id)
                IN  /\ Cardinality(issued \cup {token}) <= MaxSessions
                    /\ issued' = issued \cup {token}
                    /\ ev' = [R(200, "Ok") EXCEPT !.token = token,
                                                  !.role = "villager",
                                                  !.id = villager.id,
                                                  !.phone = villager.phone]
    /\ UNCHANGED <<now, villagers, nextId, otpStore, reqs, nextSeq, used, sensorTables, pool>>

\* GET /api/auth/validate, server.js:1469-1489
Validate(authHeader) ==
    /\ LET user == getUserFromToken(authHeader)
           R(status, res) ==
               [Response("validate", status, res) EXCEPT !.token = authHeader]
       IN  IF user.role = "guest"
           THEN ev' = R(401, "Invalid")
           ELSE ev' = [R(200, "Valid") EXCEPT !.role = user.role,
                                             !.id = user.id,
                                             !.phone = user.phone]
    /\ UNCHANGED <<now, villagers, nextId, otpStore, reqs, nextSeq, used, issued, sensorTables, pool>>

\* the Authorization headers a client can send: none, a forged one, or a
\* token it was given, raw or after 'Bearer '
ClientHeaders ==
    {Missing} \cup ForgedHeaders \cup issued \cup {BearerPrefix \o t : t \in issued}

\* milliseconds in the longest session
MaxSessionMillis == MaxSessionHours * 60 * 60 * 1000

\* the clock runs past the lifetime of every session opened so far
Elapse ==
    /\ now <= OTP_TTL + MaxSlack
    /\ now' = now + MaxSessionMillis + 1
    /\ ev' = NoEvent
    /\ UNCHANGED <<villagers, nextId, otpStore, reqs, nextSeq, used, issued, sensorTables, pool>>

(* ------------------------------ telemetry ----------------------------- *)

\* the answers of the telemetry store at this moment, one per device: any
\* answer for the first device, no row or a row at the label threshold for
\* the others
Telemetry ==
    {t \in [DevEUIs -> {NoSample, FailedSample} \cup {Sample(now - a) : a \in SampleAges}] :
        \A d \in DevEUIs \ {"A1"} :
            t[d] \in {NoSample, Sample(now - LABEL_THRESHOLD * 1000)}}

\* a telemetry store without rows
Silent == [d \in DevEUIs |-> NoSample]

\* queryInfluxDB, server.js:74-82: the rows, [] when the query rejects
queryInfluxDB(answer) ==
    IF answer.kind = "row" THEN <<answer>> ELSE <<>>

\* a label that is Offline at the threshold
SensorStatus_Exclusive(data) ==
    IF Len(data) > 0 /\ (now - data[1].time) < LABEL_THRESHOLD * 1000
    THEN "Live" ELSE "Offline"

\* status = (Date.now() - t.getTime()) / 1000 <= 22 ? 'Live' : 'Offline'
\* under if (data.length > 0), server.js:454-461, :539-548, :601-610,
\* :702-713, :1073-1078
SensorStatus(data) ==
    IF Len(data) > 0 /\ (now - data[1].time) <= LABEL_THRESHOLD * 1000
    THEN "Live" ELSE "Offline"

\* the entry of one sensor in a listing; answer, the answer of the telemetry
\* store it was computed from, is kept for reference
Listed(sensor, telemetry) ==
    [devEUI |-> sensor.devEUI,
     answer |-> telemetry[sensor.devEUI],
     status |-> SensorStatus(queryInfluxDB(telemetry[sensor.devEUI]))]

\* getActiveSensorCount, server.js:114-132: the devices whose latest sample
\* is at most SENSOR_ACTIVE_THRESHOLD seconds old
getActiveSensorCount(telemetry) ==
    Cardinality({d \in DevEUIs :
        LET rows == queryInfluxDB(telemetry[d])
        IN  /\ Len(rows) > 0
            /\ (now - rows[1].time) <= SENSOR_ACTIVE_THRESHOLD * 1000})

(* --------------------------- sensor listings -------------------------- *)

\* a query that returns the sensors of every villager
MappedSensors_All(villagerId) == sensors

\* SELECT ... FROM sensors s INNER JOIN villager_sensors vs
\* ON vs.sensor_id = s.id WHERE vs.villager_id = ?
MappedSensors(villagerId) ==
    {x \in sensors :
        [villager_id |-> villagerId, sensor_id |-> x.id] \in villager_sensors}

\* the handlers below read the tables and write nothing
ReadOnly ==
    UNCHANGED <<now, villagers, nextId, otpStore, reqs, nextSeq, used, issued,
                sensorTables, pool>>

\* GET /api/sensors, server.js:491-635; ok: the table query resolves
GetSensors(authHeader, ok, telemetry) ==
    /\ LET user == UserOf(authHeader)
           R(status, res) == [Response("get-sensors", status, res) EXCEPT
                                 !.role = user.role, !.id = user.id]
           sensorRows == IF user.role = "villager"
                         THEN MappedSensors(user.id) ELSE sensors
       IN  IF user.role = "villager" /\ user.id = 0
           THEN ev' = R(403, "Forbidden")
           ELSE IF ~ok
           THEN ev' = R(500, "UpstreamError")
           ELSE ev' = [R(200, "Ok") EXCEPT
                          !.sensors = {Listed(x, telemetry) : x \in sensorRows}]
    /\ ReadOnly

\* GET /api/my-sensors, server.js:638-749
MySensors(authHeader, ok, telemetry) ==
    /\ LET user == UserOf(authHeader)
           R(status, res) == [Response("my-sensors", status, res) EXCEPT
                                 !.role = user.role, !.id = user.id]
       IN  IF user.role # "villager"
           THEN ev' = R(403, "Forbidden")
           ELSE IF user.id = 0
           THEN ev' = R(403, "Forbidden")
           ELSE IF ~ok
           THEN ev' = R(500, "UpstreamError")
           ELSE IF \A v \in villagers : v.id # user.id
           THEN ev' = R(404, "NotFound")
           ELSE ev' = [R(200, "Ok") EXCEPT
                          !.sensors = {Listed(x, telemetry) : x \in MappedSensors(user.id)}]
    /\ ReadOnly

\* GET /api/sensors/:devEUI, server.js:752-808; the villager branch joins
\* villagers, so the row of the villager must exist
GetSensor(authHeader, devEUI, ok) ==
    /\ LET user == UserOf(authHeader)
           R(status, res) == [Response("get-sensor", status, res) EXCEPT
                                 !.role = user.role, !.id = user.id]
           rows == IF user.role = "villager"
                   THEN {x \in MappedSensors(user.id) :
                            /\ x.devEUI = devEUI
                            /\ \E v \in villagers : v.id = user.id}
                   ELSE {x \in sensors : x.devEUI = devEUI}
       IN  IF user.role = "villager" /\ user.id = 0
           THEN ev' = R(403, "Forbidden")
           ELSE IF ~ok
           THEN ev' = R(500, "UpstreamError")
           ELSE IF rows = {}
           THEN ev' = R(404, "NotFound")
           ELSE ev' = [R(200, "Ok") EXCEPT
                          !.sensors = {[devEUI |-> x.devEUI, answer |-> NoSample,
                                        status |-> "none"] : x \in rows}]
    /\ ReadOnly

\* GET /api/villagers/:aadhaar/sensors, server.js:401-486
GetVillagerSensors(authHeader, aadhaar, ok, telemetry) ==
    /\ LET user == UserOf(authHeader)
           R(status, res) == [Response("villager-sensors", status, res) EXCEPT
                                 !.role = user.role]
           rows == SelectByAadhaar(aadhaar)
       IN  IF Denied(user)
           THEN ev' = R(403, "Forbidden")
           ELSE IF ~ok
           THEN ev' = R(500, "UpstreamError")
           ELSE IF Len(rows) = 0
           THEN ev' = R(404, "NotFound")
           ELSE ev' = [R(200, "Ok") EXCEPT
                          !.sensors = {Listed(x, telemetry) : x \in MappedSensors(rows[1].id)}]
    /\ ReadOnly

\* GET /api/admin/dashboard, server.js:1023-1106
Dashboard(authHeader, ok, telemetry) ==
    /\ LET user == UserOf(authHeader)
           R(status, res) == [Response("dashboard", status, res) EXCEPT
                                 !.role = user.role]
       IN  IF Denied(user)
           THEN ev' = R(403, "Forbidden")
           ELSE IF ~ok
           THEN ev' = R(500, "UpstreamError")
           ELSE ev' = [R(200, "Ok") EXCEPT
                          !.count = getActiveSensorCount(telemetry),
                          !.sensors = {Listed(x, telemetry) : x \in sensors}]
    /\ ReadOnly

\* GET /api/villagers, server.js:226-257
GetVillagers(authHeader, ok) ==
    /\ LET user == UserOf(authHeader)
           R(status, res) == [Response("get-villagers", status, res) EXCEPT
                                 !.role = user.role]
       IN  IF Denied(user)
           THEN ev' = R(403, "Forbidden")
           ELSE IF ~ok
           THEN ev' = R(500, "UpstreamError")
           ELSE ev' = [R(200, "Ok") EXCEPT !.count = Cardinality(villagers)]
    /\ ReadOnly

\* GET /api/villagers/:aadhaarNumber, server.js:260-302
GetVillager(authHeader, aadhaarNumber, ok) ==
    /\ LET user == UserOf(authHeader)
           R(status, res) == [Response("get-villager", status, res) EXCEPT
                                 !.role = user.role]
           rows == SelectByAadhaar(aadhaarNumber)
       IN  IF Denied(user)
           THEN ev' = R(403, "Forbidden")
           ELSE IF ~ok
           THEN ev' = R(500, "UpstreamError")
           ELSE IF Len(rows) = 0
           THEN ev' = R(404, "NotFound")
           ELSE ev' = [R(200, "Ok") EXCEPT !.id = rows[1].id]
    /\ ReadOnly

(* ---------------------------- sensor registry ------------------------ *)

\* a rejection leaves an async handler.  Whether the framework hands it to
\* the error middleware of server.js:1607-1614 depends on the express
\* release, which the source does not fix: the middleware answers 500, or
\* the request is never answered
Escaped(op) ==
    {Response(op, 500, "InternalServerError"), Response(op, 0, "NoResponse")}

\* catch (err) { await conn.rollback(); ... }: the response of the catch
\* block, or, when rollback rejects, that rejection leaving the handler
Caught(op, status, res) ==
    {Response(op, status, res)} \cup Escaped(op)

\* } finally { conn.release() }, server.js:884-886, :949-951, :1016-1018, on
\* the paths that committed or reached the catch block: the transaction has
\* ended, unless conn.rollback() rejected, which leaves it ended or not
Released(op, e) ==
    IF e \in Escaped(op) THEN {"idle", "open"} ELSE {"idle"}

\* POST /api/sensors, server.js:811-887.  The statements of the transaction
\* take effect at commit; the AUTO_INCREMENT counter moves with the INSERT
\* and stays moved after a rollback
PostSensor(authHeader, devEUI, deviceName, phone, fail) ==
    /\ LET user == UserOf(authHeader)
           op == "post-sensor"
           dup == \E x \in sensors : x.devEUI = devEUI
           rows == SelectByPhone(phone)
           begun == fail \notin {"beginTransaction", "query"}
           inserted == begun /\ ~dup
           thrown == phone # Missing /\ Len(rows) = 0
       IN  IF Denied(user)
           THEN /\ ev' = Response(op, 403, "Forbidden")
                /\ UNCHANGED <<sensorTables, pool>>
           ELSE IF devEUI = "" \/ deviceName = ""
           THEN /\ ev' = Response(op, 400, "BadRequest")
                /\ UNCHANGED <<sensorTables, pool>>
           ELSE IF fail = "getConnection"
           THEN /\ ev' \in Escaped(op)
                /\ UNCHANGED <<sensorTables, pool>>
           ELSE /\ inserted => nextSensorId <= MaxSensorId
                /\ nextSensorId' = IF inserted THEN nextSensorId + 1 ELSE nextSensorId
                /\ IF ~begun
                   THEN /\ ev' \in Caught(op, 400, "UpstreamError")
                        /\ UNCHANGED <<sensors, villager_sensors>>
                   ELSE IF dup
                   THEN /\ ev' \in Caught(op, 409, "Conflict")
                        /\ UNCHANGED <<sensors, villager_sensors>>
                   ELSE IF thrown
                   THEN /\ ev' \in Caught(op, 400, "NoVillager")
                        /\ UNCHANGED <<sensors, villager_sensors>>
                   ELSE IF fail = "commit"
                   THEN /\ ev' \in Caught(op, 400, "UpstreamError")
                        /\ UNCHANGED <<sensors, villager_sensors>>
                   ELSE /\ sensors' = sensors \cup
                               {[id |-> nextSensorId, devEUI |-> devEUI, name |-> deviceName]}
                        /\ villager_sensors' =
                               IF phone = Missing THEN villager_sensors
                               ELSE villager_sensors \cup
                                      {[villager_id |-> rows[1].id, sensor_id |-> nextSensorId]}
                        /\ ev' = Response(op, 200, "Ok")
                /\ pool' \in Released(op, ev')
    /\ UNCHANGED <<now, villagers, nextId, otpStore, reqs, nextSeq, used, issued>>

\* PUT /api/sensors/:devEUI, server.js:890-952
PutSensor(authHeader, devEUI, deviceName, phone, fail) ==
    /\ LET user == UserOf(authHeader)
           op == "put-sensor"
           found == {x \in sensors : x.devEUI = devEUI}
           rows == SelectByPhone(phone)
           begun == fail \notin {"beginTransaction", "query"}
           thrown == phone # Missing /\ Len(rows) = 0
       IN  IF Denied(user)
           THEN /\ ev' = Response(op, 403, "Forbidden")
                /\ UNCHANGED <<sensors, villager_sensors, pool>>
           ELSE IF fail = "getConnection"
           THEN /\ ev' \in Escaped(op)
                /\ UNCHANGED <<sensors, villager_sensors, pool>>
           ELSE IF ~begun
           THEN /\ ev' \in Caught(op, 400, "UpstreamError")
                /\ pool' \in Released(op, ev')
                /\ UNCHANGED <<sensors, villager_sensors>>
           ELSE IF found = {}
           THEN /\ ev' \in Caught(op, 400, "NotFound")
                /\ pool' \in Released(op, ev')
                /\ UNCHANGED <<sensors, villager_sensors>>
           ELSE IF thrown
           THEN /\ ev' \in Caught(op, 400, "NoVillager")
                /\ pool' \in Released(op, ev')
                /\ UNCHANGED <<sensors, villager_sensors>>
           ELSE IF fail = "commit"
           THEN /\ ev' \in Caught(op, 400, "UpstreamError")
                /\ pool' \in Released(op, ev')
                /\ UNCHANGED <<sensors, villager_sensors>>
           ELSE /\ sensors' = {IF x.devEUI = devEUI
                               THEN [x EXCEPT !.name = deviceName] ELSE x :
                               x \in sensors}
                /\ villager_sensors' =
                       {m \in villager_sensors : \A x \in found : m.sensor_id # x.id}
                       \cup (IF phone = Missing THEN {}
                             ELSE {[villager_id |-> rows[1].id, sensor_id |-> x.id] :
                                      x \in found})
                /\ ev' = Response(op, 200, "Ok")
                /\ pool' \in Released(op, ev')
    /\ UNCHANGED <<now, villagers, nextId, otpStore, reqs, nextSeq, used, issued,
                   nextSensorId>>

\* DELETE /api/sensors/:devEUI, server.js:955-1019
DeleteSensor(authHeader, devEUI, fail) ==
    /\ LET user == UserOf(authHeader)
           op == "delete-sensor"
           found == {x \in sensors : x.devEUI = devEUI}
           begun == fail \notin {"beginTransaction", "query"}
       IN  IF Denied(user)
           THEN /\ ev' = Response(op, 403, "Forbidden")
                /\ UNCHANGED <<sensors, villager_sensors, pool>>
           ELSE IF fail = "getConnection"
           THEN /\ ev' \in Escaped(op)
                /\ UNCHANGED <<sensors, villager_sensors, pool>>
           ELSE IF ~begun
           THEN /\ ev' \in Caught(op, 500, "UpstreamError")
                /\ pool' \in Released(op, ev')
                /\ UNCHANGED <<sensors, villager_sensors>>
           ELSE IF found = {}
           THEN /\ ev' = Response(op, 404, "NotFound")
                /\ pool' = "open"
                /\ UNCHANGED <<sensors, villager_sensors>>
           ELSE IF fail = "commit"
           THEN /\ ev' \in Caught(op, 500, "UpstreamError")
                /\ pool' \in Released(op, ev')
                /\ UNCHANGED <<sensors, villager_sensors>>
           ELSE /\ sensors' = sensors \ found
                /\ villager_sensors' =
                       {m \in villager_sensors : \A x \in found : m.sensor_id # x.id}
                /\ ev' = Response(op, 200, "Ok")
                /\ pool' \in Released(op, ev')
    /\ UNCHANGED <<now, villagers, nextId, otpStore, reqs, nextSeq, used, issued,
                   nextSensorId>>

(* --------------------------- specification ---------------------------- *)

\* the steps of the three OTP endpoints for requests that name a phone of P
OtpNext(P) ==
    \/ \E phone \in P \cup {ShortPhone, Missing} : SendOtpStart(phone)
    \/ \E q \in InFlight, ok \in BOOLEAN : SendOtpResume(q, ok)
    \/ \E phone \in P \cup {Missing} : ResendOtpStart(phone)
    \/ \E q \in InFlight, ok \in BOOLEAN : ResendOtpResume(q, ok)
    \/ \E phone \in P \cup {Missing}, otp \in SubmittedCodes \cup {Missing} :
          CheckOtpStart(phone, otp)
    \/ \E q \in InFlight, ok \in BOOLEAN : CheckOtpResume(q, ok)

\* the villager CRUD requests of an administrator or an anonymous caller
AdminNext ==
    \/ \E auth \in AuthHeaders, aadhaar \in Aadhaars, phone \in DbPhones \cup {Missing} :
          PostVillager(auth, aadhaar, phone)
    \/ \E auth \in AuthHeaders, aadhaar \in Aadhaars, phone \in DbPhones :
          PutVillager(auth, aadhaar, phone)
    \/ \E auth \in AuthHeaders, aadhaar \in Aadhaars : DeleteVillager(auth, aadhaar)

\* OTP login on one phone while the clock runs, the table being left alone
Next == Tick \/ OtpNext({Phone1})

Spec == Init /\ [][Next]_vars

\* OTP login on all phones at one reading of the clock, which is not 0
InitPhones == StartedAt(MaxSlack)

NextPhones == OtpNext(Phones)

SpecPhones == InitPhones /\ [][NextPhones]_vars

\* OTP login on one phone while the villagers table is edited
NextAdmin == OtpNext({Phone1}) \/ AdminNext

SpecAdmin == Init /\ [][NextAdmin]_vars

\* the sessions: logins, validations, an administrator giving a villager a
\* phone with a dash, and the clock running past the session lifetime
NextSessions ==
    \/ \E aadhaarNumber \in LoginAadhaars, ok \in BOOLEAN : Login(aadhaarNumber, ok)
    \/ \E authHeader \in ClientHeaders : Validate(authHeader)
    \/ \E auth \in ClientHeaders, aadhaar \in Aadhaars : PutVillager(auth, aadhaar, DashPhone)
    \/ Elapse

SpecSessions == Init /\ [][NextSessions]_vars

\* the sensor registry when every collaborator call resolves
RegistryNext(Headers) ==
    \/ \E authHeader \in Headers, devEUI \in DevEUIs \cup {""},
          deviceName \in {"pump", ""}, phone \in SensorPhones :
          PostSensor(authHeader, devEUI, deviceName, phone, "none")
    \/ \E authHeader \in Headers, devEUI \in DevEUIs,
          deviceName \in DeviceNames, phone \in SensorPhones :
          PutSensor(authHeader, devEUI, deviceName, phone, "none")
    \/ \E authHeader \in Headers, devEUI \in DevEUIs :
          DeleteSensor(authHeader, devEUI, "none")

\* the sensor registry when a collaborator call rejects
RegistryFails(Headers) ==
    \/ \E authHeader \in Headers, fail \in Failures \ {"none"} :
          PostSensor(authHeader, "A1", "pump", Missing, fail)
    \/ \E authHeader \in Headers, fail \in Failures \ {"none"} :
          PutSensor(authHeader, "A1", "tank", Missing, fail)
    \/ \E authHeader \in Headers, fail \in Failures \ {"none"} :
          DeleteSensor(authHeader, "A1", fail)

\* the sensor listings open to every caller, and the single sensor, for the
\* answers T of the telemetry store
ListingNext(Headers, T) ==
    \/ \E authHeader \in Headers, telemetry \in T :
          GetSensors(authHeader, TRUE, telemetry)
    \/ \E authHeader \in Headers, telemetry \in T :
          MySensors(authHeader, TRUE, telemetry)
    \/ \E authHeader \in Headers, devEUI \in DevEUIs, ok \in BOOLEAN :
          GetSensor(authHeader, devEUI, ok)

\* the listings of an administrator
AdminListingNext(Headers, T) ==
    \/ \E authHeader \in Headers, aadhaar \in Aadhaars, telemetry \in T :
          GetVillagerSensors(authHeader, aadhaar, TRUE, telemetry)
    \/ \E authHeader \in Headers, telemetry \in T :
          Dashboard(authHeader, TRUE, telemetry)

\* the same listings when a query of the tables rejects
ListingFails(Headers) ==
    \/ \E authHeader \in Headers : GetSensors(authHeader, FALSE, Silent)
    \/ \E authHeader \in Headers : MySensors(authHeader, FALSE, Silent)
    \/ \E authHeader \in Headers, aadhaar \in Aadhaars :
          GetVillagerSensors(authHeader, aadhaar, FALSE, Silent)
    \/ \E authHeader \in Headers : Dashboard(authHeader, FALSE, Silent)

\* the header of an administrator
AdminHeaders == {h \in AuthHeaders : getUserFromToken(h).role = "admin"}

\* the headers of the callers that are not administrators
NonAdminHeaders == {h \in SensorHeaders : getUserFromToken(h).role # "admin"}

\* an administrator registers, maps and lists sensors, and every caller lists
\* them, the villagers table being left alone
NextSensors ==
    \/ RegistryNext(AdminHeaders)
    \/ RegistryFails(AdminHeaders)
    \/ ListingNext(SensorHeaders, Telemetry)
    \/ AdminListingNext(AdminHeaders, Telemetry)
    \/ ListingFails(AdminHeaders \cup {VillagerHeader(1)})

SpecSensors == StartedAt(MaxSlack) /\ [][NextSensors]_vars

\* an administrator registers, updates and removes sensors, the calls of
\* the transaction resolving or rejecting
NextRegistry ==
    \/ RegistryNext(AdminHeaders)
    \/ RegistryFails(AdminHeaders)

SpecRegistry == Init /\ [][NextRegistry]_vars

\* every endpoint behind the administrator guard, called with the headers
\* Headers
GuardedNext(Headers) ==
    \/ \E auth \in Headers, aadhaar \in Aadhaars, phone \in DbPhones \cup {Missing} :
          PostVillager(auth, aadhaar, phone)
    \/ \E auth \in Headers, aadhaar \in Aadhaars, phone \in DbPhones :
          PutVillager(auth, aadhaar, phone)
    \/ \E auth \in Headers, aadhaar \in Aadhaars : DeleteVillager(auth, aadhaar)
    \/ \E authHeader \in Headers, ok \in BOOLEAN : GetVillagers(authHeader, ok)
    \/ \E authHeader \in Headers, aadhaarNumber \in Aadhaars, ok \in BOOLEAN :
          GetVillager(authHeader, aadhaarNumber, ok)
    \/ \E authHeader \in Headers, aadhaar \in Aadhaars :
          GetVillagerSensors(authHeader, aadhaar, TRUE, Silent)
    \/ \E authHeader \in Headers, devEUI \in DevEUIs, phone \in SensorPhones :
          PostSensor(authHeader, devEUI, "pump", phone, "none")
    \/ \E authHeader \in Headers, devEUI \in DevEUIs, phone \in SensorPhones :
          PutSensor(authHeader, devEUI, "tank", phone, "none")
    \/ \E authHeader \in Headers, devEUI \in DevEUIs :
          DeleteSensor(authHeader, devEUI, "none")
    \/ \E authHeader \in Headers : Dashboard(authHeader, TRUE, Silent)

\* villagers and anonymous callers at the guarded endpoints, while an
\* administrator registers sensors and removes villagers, and a code is sent
\* to one phone
NextGuard ==
    \/ GuardedNext(NonAdminHeaders)
    \/ \E authHeader \in AdminHeaders, devEUI \in DevEUIs :
          PostSensor(authHeader, devEUI, "pump", Phone1, "none")
    \/ \E auth \in AdminHeaders, aadhaar \in Aadhaars : DeleteVillager(auth, aadhaar)
    \/ SendOtpStart(Phone1)
    \/ \E q \in InFlight, ok \in BOOLEAN : SendOtpResume(q, ok)

SpecGuard == Init /\ [][NextGuard]_vars

(* ------------------------------ claims -------------------------------- *)

CheckInputs == (Phones \X SubmittedCodes)

\* C1: for every OTP record at most one check-otp request ends in success,
\* in every interleaving of the requests for its phone.
C1_SingleUse ==
    [][\A q \in InFlight, ok \in BOOLEAN :
          (CheckOtpResume(q, ok) /\ ev'.res = "Ok") => q.rid \notin used]_vars

C3_AttemptCount ==
    /\ [](\A p \in Phones : otpStore[p].attempts \in 0..3)
    /\ [][\A in \in CheckInputs :
            LET p == in[1]
                compared == ev'.res = "Mismatch" \/ reqs' # reqs
            IN  CheckOtpStart(p, in[2]) =>
                  /\ compared =>
                        otpStore' = [otpStore EXCEPT
                                        ![p].attempts = otpStore[p].attempts + 1,
                                        ![p].compares = otpStore[p].compares + 1]
                  /\ ev'.res = "NotFound" => otpStore' = otpStore
                  /\ ev'.res \in {"Expired", "TooManyAttempts"} =>
                        otpStore' = [otpStore EXCEPT ![p] = NoRec]
                  /\ compared \/ ev'.res \in {"NotFound", "Expired", "TooManyAttempts"}]_vars

C3_Witness ==
    /\ ev.op = "check-otp"
    /\ ev.res = "Mismatch"
    /\ \E p \in Phones : otpStore[p].rid = ev.rid /\ otpStore[p].attempts = 2

\* C4 as claimed: in the state right after the third failed attempt the
\* store holds no record for the phone.
C4_DeletedAfterThird ==
    (ev.op = "check-otp" /\ ev.res = "Mismatch") =>
        \A p \in Phones : ~(otpStore[p].rid = ev.rid /\ otpStore[p].attempts = 3)

\* C4 as amended: a Mismatch, the third included, keeps the record in the
\* store; a record whose attemptCount is 3 is deleted by the next check-otp
\* for its phone, which is rejected without a comparison.
C4_DeletedByNextCheck ==
    [][\A in \in CheckInputs :
          LET p == in[1]
          IN  CheckOtpStart(p, in[2]) =>
                /\ ev'.res = "Mismatch" =>
                      /\ otpStore'[p] # NoRec
                      /\ otpStore'[p].rid = otpStore[p].rid
                /\ otpStore[p].attempts = 3 =>
                      /\ otpStore'[p] = NoRec
                      /\ ev'.res \in {"TooManyAttempts", "Expired"}]_vars

C4_Witness ==
    /\ ev.op = "check-otp"
    /\ ev.res = "Mismatch"
    /\ \E p \in Phones : otpStore[p].rid = ev.rid /\ otpStore[p].attempts = 3

\* C7: a check-otp made when now > expiresAt fails Expired and deletes the
\* record, whatever the code and attemptCount; at now = expiresAt the record
\* is not treated as expired; no request passes the expiry check (and so
\* none succeeds) at a time later than expiresAt.
C7_Expiry ==
    [][\A in \in CheckInputs :
          LET p == in[1]
              d == otpStore[p]
          IN  (CheckOtpStart(p, in[2]) /\ d # NoRec) =>
                /\ now > d.expiresAt =>
                      /\ ev'.res = "Expired"
                      /\ otpStore' = [otpStore EXCEPT ![p] = NoRec]
                      /\ reqs' = reqs
                /\ now = d.expiresAt =>
                      /\ ev'.res # "Expired"
                      /\ d.attempts < 3 => otpStore'[p].attempts = d.attempts + 1
                /\ reqs' # reqs => now <= d.expiresAt]_vars

C7_Witness ==
    /\ ev.op = "check-otp"
    /\ ev.res = "Expired"

\* C8: check-otp for a phone that has no record in the store fails NotFound
\* with any code, returns no token, starts no lookup and leaves the store
\* unchanged.
C8_NotFound ==
    [][\A in \in CheckInputs :
          (CheckOtpStart(in[1], in[2]) /\ otpStore[in[1]] = NoRec) =>
              /\ ev'.op = "check-otp"
              /\ ev'.res = "NotFound"
              /\ ev'.token = Missing
              /\ reqs' = reqs
              /\ otpStore' = otpStore]_vars

C8_Witness ==
    /\ ev.op = "check-otp"
    /\ ev.res = "NotFound"
    /\ used # {}

\* C5: a check-otp that found a record which is not expired, has
\* attemptCount < 3 and holds the supplied code succeeds and the record is
\* deleted, whatever has happened to the villager row and whatever the
\* villager lookup gives.
C5_CorrectCodeSucceeds ==
    [][\A q \in InFlight, ok \in BOOLEAN :
          CheckOtpResume(q, ok) =>
              /\ ev'.res = "Ok"
              /\ otpStore'[q.phone] = NoRec]_vars

\* C6: the token of a successful check-otp decodes to the villager id that
\* send-otp/resend-otp stored in the OTP record.
C6_TokenIdentity ==
    (ev.op = "check-otp" /\ ev.res = "Ok") =>
        /\ getUserFromToken(ev.token).role = "villager"
        /\ getUserFromToken(ev.token).id = ev.villagerId

\* the characters of a string are decimal digits
AllDigits(s) == \A i \in 1..Len(s) : IsDigit(s[i])

\* C9: a send-otp for a registered phone of 10 characters whose lookup
\* succeeds answers "sent" and leaves, for that phone, a record with a code
\* of 6 digits in 100000..999999, expiresAt = now + 5 minutes and
\* attemptCount 0, whatever record was there before, and leaves the records
\* of the other phones as they were.
C9_SendOtp ==
    [][\A q \in InFlight, ok \in BOOLEAN :
          LET p == q.phone
              rec == otpStore'[p]
          IN  SendOtpResume(q, ok) =>
                /\ (ok /\ Len(p) = 10 /\ \E v \in villagers : v.phone = p) =>
                      /\ ev'.res = "Sent"
                      /\ ev'.status = 200
                /\ ev'.res = "Sent" =>
                      /\ Len(rec.otp) = 6
                      /\ AllDigits(rec.otp)
                      /\ DigitsValue(rec.otp) \in 100000..999999
                      /\ rec.expiresAt = now + 300000
                      /\ rec.attempts = 0
                      /\ rec.rid = q.seq
                      /\ \E v \in villagers : v.phone = p /\ v.id = rec.villagerId
                      /\ \A other \in Phones \ {p} : otpStore'[other] = otpStore[other]
                /\ ev'.res # "Sent" => otpStore' = otpStore]_vars

C9_Witness ==
    /\ ev.op = "send-otp"
    /\ ev.res = "Sent"
    /\ \E p \in Phones, q \in Phones :
          /\ p # q
          /\ otpStore[p].rid = ev.rid
          /\ otpStore[q] # NoRec

\* C10 as claimed: the record stored by a completed resend-otp is never
\* replaced by the record of a request that was received before that
\* resend-otp, so no code handed out by an earlier request verifies.
C10_LastRequestWins ==
    [][\A p \in Phones :
          (otpStore[p].op = "resend-otp" /\ otpStore'[p] # NoRec) =>
              otpStore'[p].rid >= otpStore[p].rid]_vars

\* C10 as amended: resend-otp deletes the record of its phone when it is
\* received, and when it completes successfully the store holds the record
\* it created, with attemptCount 0; that record is the one check-otp compares
\* against until a check-otp removes it or another send-otp/resend-otp for
\* the phone completes, whichever of the two requests was received first.
C10_LastStoreWins ==
    [][/\ \A p \in Phones :
            ResendOtpStart(p) => otpStore' = [otpStore EXCEPT ![p] = NoRec]
       /\ \A q \in InFlight, ok \in BOOLEAN :
            LET p == q.phone
            IN  (ResendOtpResume(q, ok) /\ ev'.res = "Sent") =>
                   /\ otpStore'[p].rid = q.seq
                   /\ otpStore'[p].op = "resend-otp"
                   /\ otpStore'[p].attempts = 0
                   /\ otpStore'[p].expiresAt = now + 300000
       /\ \A p \in Phones :
            ( /\ otpStore[p].op = "resend-otp"
              /\ otpStore'[p].rid # otpStore[p].rid ) =>
                 \/ otpStore'[p] = NoRec /\ ev'.op \in {"check-otp", "none"}
                 \/ ev'.res = "Sent" /\ ev'.rid = otpStore'[p].rid]_vars

C10_Witness ==
    /\ ev.op = "resend-otp"
    /\ ev.res = "Sent"
    /\ \E p \in Phones : otpStore[p].rid = ev.rid /\ otpStore[p].op = "resend-otp"

\* a check-otp that made its comparison is suspended on the record
Overlaps(otpData) ==
    \E q \in InFlight : q.kind = "check-otp" /\ q.rid = otpData.rid

\* C11 as claimed: a check-otp whose comparison falls between the read and
\* the last write of another check-otp for the same record loses an update,
\* leaving attemptCount smaller than the number of comparisons made.
C11_LostUpdate ==
    [][\A in \in CheckInputs :
          LET p == in[1]
              compared == ev'.res = "Mismatch" \/ reqs' # reqs
          IN  (CheckOtpStart(p, in[2]) /\ compared /\ Overlaps(otpStore[p])) =>
                  otpStore'[p].attempts < otpStore'[p].compares]_vars

\* C11 as amended: no update of attemptCount is lost; in every reachable
\* state, whatever the interleaving of the requests, the attemptCount of a
\* record equals the number of comparisons made against its code.
C11_NoLostUpdate ==
    \A p \in Phones : otpStore[p].attempts = otpStore[p].compares

C11_Witness ==
    /\ ev.op = "check-otp"
    /\ ev.res = "Mismatch"
    /\ \E p \in Phones :
          /\ otpStore[p].rid = ev.rid
          /\ otpStore[p].compares >= 2
          /\ Overlaps(otpStore[p])

\* the token of an Authorization header
Raw(authHeader) ==
    IF StartsWith(authHeader, BearerPrefix)
    THEN SubSeq(authHeader, 8, Len(authHeader))
    ELSE authHeader

\* the Date.now() a token carries
IssuedAt(token) == parseInt(Split(token, Dash)[2])

\* C12: a token that /api/login or check-otp issued is rejected by
\* GET /api/auth/validate once its session lifetime has passed.
C12_ExpiredRejected ==
    ( /\ ev.op = "validate"
      /\ Raw(ev.token) \in issued
      /\ now > IssuedAt(Raw(ev.token)) + MaxSessionMillis ) =>
        ev.status = 401

\* the string has the form villager-<x>-<y>-<n> with n a number
IsVillagerPattern(token) ==
    LET parts == Split(token, Dash)
    IN  /\ Len(parts) = 4
        /\ parts[1] = <<"v", "i", "l", "l", "a", "g", "e", "r">>
        /\ Len(parts[4]) > 0
        /\ AllDigits(parts[4])

\* C13: whether or not it was ever issued, every Authorization value whose
\* token begins 'token-' is validated as role admin and passes the admin
\* check of PUT /api/villagers, and every value villager-<x>-<y>-<n> with
\* numeric n is validated as villager n.
C13_Forgeable ==
    [][\A h \in ClientHeaders :
          /\ Validate(h) =>
                /\ StartsWith(Raw(h), AdminPrefix) =>
                      /\ ev'.status = 200
                      /\ ev'.role = "admin"
                /\ IsVillagerPattern(Raw(h)) =>
                      /\ ev'.status = 200
                      /\ ev'.role = "villager"
                      /\ ev'.id = DigitsValue(Split(Raw(h), Dash)[4])
          /\ \A aadhaar \in Aadhaars :
                (PutVillager(h, aadhaar, DashPhone) /\ StartsWith(Raw(h), AdminPrefix)) =>
                    ev'.status # 403]_vars

C13_Witness ==
    /\ ev.op = "validate"
    /\ ev.status = 200
    /\ issued # {}
    /\ Raw(ev.token) \notin issued

\* C20: the token /api/login returns for a villager row decodes, raw and
\* after 'Bearer ', to role villager with the id and the phone of that row,
\* and the token it returns for the admin decodes to role admin.
C20_RoundTrip ==
    (ev.op = "login" /\ ev.res = "Ok") =>
        \A h \in {ev.token, BearerPrefix \o ev.token} :
            /\ getUserFromToken(h).role = ev.role
            /\ ev.role = "villager" =>
                  /\ getUserFromToken(h).id = ev.id
                  /\ getUserFromToken(h).phone = ev.phone

\* the operations of the guarded endpoints
GuardedOps ==
    {"post-villager", "put-villager", "delete-villager", "get-villagers",
     "get-villager", "villager-sensors", "post-sensor", "put-sensor",
     "delete-sensor", "dashboard"}

\* the step is a request to a guarded endpoint sent with the header auth
GuardedRequest(auth) ==
    \/ /\ ev'.op = "post-villager"
       /\ \E aadhaar \in Aadhaars, phone \in DbPhones \cup {Missing} :
             PostVillager(auth, aadhaar, phone)
    \/ /\ ev'.op = "put-villager"
       /\ \E aadhaar \in Aadhaars, phone \in DbPhones : PutVillager(auth, aadhaar, phone)
    \/ /\ ev'.op = "delete-villager"
       /\ \E aadhaar \in Aadhaars : DeleteVillager(auth, aadhaar)
    \/ /\ ev'.op = "get-villagers"
       /\ \E ok \in BOOLEAN : GetVillagers(auth, ok)
    \/ /\ ev'.op = "get-villager"
       /\ \E aadhaar \in Aadhaars, ok \in BOOLEAN : GetVillager(auth, aadhaar, ok)
    \/ /\ ev'.op = "villager-sensors"
       /\ \E aadhaar \in Aadhaars : GetVillagerSensors(auth, aadhaar, TRUE, Silent)
    \/ /\ ev'.op = "post-sensor"
       /\ \E devEUI \in DevEUIs, phone \in SensorPhones :
             PostSensor(auth, devEUI, "pump", phone, "none")
    \/ /\ ev'.op = "put-sensor"
       /\ \E devEUI \in DevEUIs, phone \in SensorPhones :
             PutSensor(auth, devEUI, "tank", phone, "none")
    \/ /\ ev'.op = "delete-sensor"
       /\ \E devEUI \in DevEUIs : DeleteSensor(auth, devEUI, "none")
    \/ /\ ev'.op = "dashboard"
       /\ Dashboard(auth, TRUE, Silent)

\* C14: a request to a villager CRUD endpoint, to the sensors of a villager,
\* to POST/PUT/DELETE /api/sensors or to the dashboard, sent with a header
\* that does not classify as admin, is answered 403 and leaves the villagers,
\* sensors and villager_sensors tables and the OTP store as they were
C14_AdminOnly ==
    [][\/ /\ ev'.status = 403
          /\ UNCHANGED <<villagers, nextId, sensorTables, otpStore>>
       \/ \A auth \in NonAdminHeaders : ~GuardedRequest(auth)]_vars

\* a villager was refused at a guarded endpoint while the tables held a
\* sensor and the store a code
C14_Witness ==
    /\ ev.op \in GuardedOps
    /\ ev.status = 403
    /\ sensors # {}
    /\ villager_sensors # {}
    /\ otpStore[Phone1] # NoRec

\* the listings a villager can ask for
VillagerListings == {"my-sensors", "get-sensors", "get-sensor"}

\* C15: every sensor in the answer of GET /api/my-sensors, and of GET
\* /api/sensors and GET /api/sensors/:devEUI for a caller classified as the
\* villager with id V, has a row (V, sensor) in villager_sensors when the
\* tables are read; GET /api/my-sensors answers 403 to every caller that is
\* not classified as a villager
C15_Isolation ==
    /\ (ev.op \in VillagerListings /\ ev.role = "villager") =>
           \A listed \in ev.sensors :
               \E x \in sensors :
                   /\ x.devEUI = listed.devEUI
                   /\ [villager_id |-> ev.id, sensor_id |-> x.id] \in villager_sensors
    /\ (ev.op = "my-sensors" /\ ev.role # "villager") => ev.status = 403

\* a villager was given a list of sensors while the table held a sensor of
\* somebody else
C15_Witness ==
    /\ ev.op \in {"my-sensors", "get-sensors"}
    /\ ev.role = "villager"
    /\ ev.status = 200
    /\ ev.sensors # {}
    /\ \E x \in sensors :
           [villager_id |-> ev.id, sensor_id |-> x.id] \notin villager_sensors

\* the listings that label each sensor
StatusListings == {"get-sensors", "my-sensors", "villager-sensors", "dashboard"}

\* C16: in every listing a sensor is labelled Live exactly when the telemetry
\* store returned a latest sample for it and the sample is at most the label
\* threshold old, the threshold included; it is labelled Offline in every
\* other case, also when there is no sample or the telemetry query fails
C16_Status ==
    ev.op \in StatusListings =>
        \A listed \in ev.sensors :
            /\ listed.status \in {"Live", "Offline"}
            /\ listed.status = "Live" <=>
                   /\ listed.answer.kind = "row"
                   /\ now - listed.answer.time <= LABEL_THRESHOLD * 1000

\* one listing holds a sensor whose sample is exactly the threshold old,
\* labelled Live, and a sensor whose telemetry query failed, labelled Offline
C16_Witness ==
    /\ ev.op \in StatusListings
    /\ \E listed \in ev.sensors :
           /\ listed.answer = Sample(now - LABEL_THRESHOLD * 1000)
           /\ listed.status = "Live"
    /\ \E listed \in ev.sensors :
           /\ listed.answer = FailedSample
           /\ listed.status = "Offline"

\* C17: one threshold of 20 seconds everywhere: a listed sensor with a
\* sample is labelled Live exactly when the sample is at most 20 s old (so
\* 21 s is Offline), and, every device being a listed sensor, the active
\* count of the dashboard is the number of sensors it labels Live
C17_OneThreshold ==
    /\ ev.op \in StatusListings =>
           \A listed \in ev.sensors :
               listed.answer.kind = "row" =>
                   (listed.status = "Live" <=>
                       now - listed.answer.time <= SENSOR_ACTIVE_THRESHOLD * 1000)
    /\ (/\ ev.op = "dashboard"
        /\ ev.status = 200
        /\ \A d \in DevEUIs : \E listed \in ev.sensors : listed.devEUI = d) =>
           ev.count = Cardinality({listed \in ev.sensors : listed.status = "Live"})

\* C18: every request is answered by its own handler: none is left without
\* a response, and no rejection of a collaborator call leaves the handler for
\* the error middleware
C18_Answered ==
    ev.op # "none" =>
        /\ ev.res # "NoResponse"
        /\ ev.res # "InternalServerError"

\* the calls of a transaction that every request of an administrator
\* reaches
ReachedFailures == {"beginTransaction", "query"}

\* C19: the response to a request during which a database call or a
\* telemetry query fails has status 500: the sensor requests whose
\* transaction does not begin or whose first statement rejects, and the
\* listings that hold a sensor whose telemetry query failed
C19_UpstreamIs500 ==
    [][/\ \A authHeader \in AdminHeaders, fail \in ReachedFailures :
             (\/ PostSensor(authHeader, "A1", "pump", Missing, fail)
              \/ PutSensor(authHeader, "A1", "tank", Missing, fail)
              \/ DeleteSensor(authHeader, "A1", fail))
             => (ev'.res # "NoResponse" => ev'.status = 500)
       /\ \A listed \in ev'.sensors :
             listed.answer.kind = "failed" => ev'.status = 500]_vars

\* C21: a check-otp that succeeds removes only the record it matched: when
\* a send-otp or resend-otp has stored another record for the phone while
\* the check-otp was suspended at its villager query, that record is still
\* in the store, as it was, after the check-otp has finished
C21_RemovesOnlyMatched ==
    [][\A q \in InFlight :
          (/\ CheckOtpResume(q, TRUE)
           /\ ev'.res = "Ok"
           /\ otpStore[q.phone] # NoRec
           /\ otpStore[q.phone].rid # q.rid)
          => otpStore'[q.phone] = otpStore[q.phone]]_vars

\* the operations that take a connection from the pool
RegistryOps == {"post-sensor", "put-sensor", "delete-sensor"}

\* C22: a POST, PUT or DELETE /api/sensors that its handler answers, on
\* whatever path, has committed or rolled back the transaction it began
\* before it releases the connection: the pool, which held no open
\* transaction before the request, holds none after it
C22_Discipline ==
    [][(/\ ev'.op \in RegistryOps
        /\ ev'.res \notin {"NoResponse", "InternalServerError"}
        /\ pool = "idle")
       => pool' = "idle"]_vars

\* the villagers the sensor with devEUI is mapped to after the step
MappedTo(devEUI) ==
    {m.villager_id : m \in {m \in villager_sensors' :
        \E x \in sensors' : x.devEUI = devEUI /\ m.sensor_id = x.id}}

\* the villagers who own the phone; none when no phone is supplied
Owners(phone) ==
    IF phone = Missing THEN {}
    ELSE {v.id : v \in {v \in villagers : v.phone = phone}}

\* C23: a POST /api/sensors or PUT /api/sensors/:devEUI that fails leaves
\* the sensors and villager_sensors tables exactly as they were (a duplicate
\* devEUI and a phone of no villager fail the POST, an unknown devEUI and a
\* phone of no villager fail the PUT); one that succeeds leaves the sensor
\* mapped to exactly the villager who owns the phone, to none without a phone
C23_Atomic ==
    [][/\ (ev'.op \in {"post-sensor", "put-sensor"} /\ ev'.status # 200) =>
             UNCHANGED <<sensors, villager_sensors>>
       /\ ev'.op = "post-sensor" =>
             \A authHeader \in AdminHeaders, devEUI \in DevEUIs, phone \in SensorPhones :
                 PostSensor(authHeader, devEUI, "pump", phone, "none") =>
                    /\ (\E x \in sensors : x.devEUI = devEUI) => ev'.status # 200
                    /\ (phone # Missing /\ Owners(phone) = {}) => ev'.status # 200
                    /\ ev'.status = 200 => MappedTo(devEUI) = Owners(phone)
       /\ ev'.op = "put-sensor" =>
             \A authHeader \in AdminHeaders, devEUI \in DevEUIs, phone \in SensorPhones :
                 (\E deviceName \in DeviceNames :
                     PutSensor(authHeader, devEUI, deviceName, phone, "none")) =>
                    /\ (\A x \in sensors : x.devEUI # devEUI) => ev'.status # 200
                    /\ (phone # Missing /\ Owners(phone) = {}) => ev'.status # 200
                    /\ ev'.status = 200 => MappedTo(devEUI) = Owners(phone)]_vars

\* a PUT that named a phone of no villager was refused while the sensor was
\* mapped, and a sensor is mapped still
C23_Witness ==
    /\ ev.op = "put-sensor"
    /\ ev.res = "NoVillager"
    /\ ev.status = 400
    /\ villager_sensors # {}

============================================================================
